---- MODULE Spec2Model ----
(***************************************************************************)
(* Model of ddi_zoo/src/model/drug_gcn.py: the GCNModel adapter (one       *)
(* encoder, a name-keyed mapping of classification heads), its forward     *)
(* variants, summary extraction (get_cls), head registration and the three *)
(* architecture presets.                                                   *)
(***************************************************************************)
EXTENDS Integers, Sequences, FiniteSets, TLC

(***************************************************************************)
(* Bounds of the model.                                                    *)
(***************************************************************************)
\* longest sequence dimension of an encoder output tensor (lengths 0..MaxLen)
MaxLen == 2

(***************************************************************************)
(* Program constants.                                                      *)
(***************************************************************************)
TinyLayers == 2
BaseLayers == 6
LargeLayers == 12
DefaultEmbedDim == 384
DefaultMaxPositions == 512

PyInt(n) == [kind |-> "int", val |-> n]

\* values the caller and the environment supply
CallerLayers == {PyInt(3), PyInt(24)}
CallerEmbedDims == {PyInt(128)}
EncoderOutputFeatures == {PyInt(256)}
TensorWidths == {384, 256}

(***************************************************************************)
(* Python values.  Every value is a record tagged by its type, so that     *)
(* values of different types are comparable (and different).               *)
(***************************************************************************)
PyNone == [kind |-> "None"]
PyStr(s) == [kind |-> "str", val |-> s]
PyTuple(s) == [kind |-> "tuple", elems |-> s]
PyList == [kind |-> "list"]
\* a tensor: its shape, the graph it was computed from, and the positions
\* selected from the original encoder output by the slices taken so far
Tensor(sh, g) == [kind |-> "tensor", shape |-> sh, src |-> g, sel |-> <<>>]

\* outcome of a call: a returned value or a raised exception
Ok(v) == [ok |-> TRUE, val |-> v]
Raise(e) == [ok |-> FALSE, err |-> e]

\* Python truthiness as used by `inner_dim or self.args.gnn_embed_dim`
Truthy(v) == ~(v = PyNone \/ v = PyInt(0))
PyOr(a, b) == IF Truthy(a) THEN a ELSE b

\* attribute access on a namespace object: a function from the names that are
\* set to their values
NoAttrs == [n \in {} |-> PyNone]
GetAttr(o, f, d) == IF f \in DOMAIN o THEN o[f] ELSE d
SetAttr(o, f, v) == [k \in (DOMAIN o) \cup {f} |-> IF k = f THEN v ELSE o[k]]

(***************************************************************************)
(* get_cls: summary extraction.                                            *)
(***************************************************************************)
\* x[:, -1, :] on a tensor: three indices need rank >= 3, and index -1 needs a
\* non-empty second dimension; the result drops the second dimension
SliceLast(x) ==
    IF Len(x.shape) < 3 \/ x.shape[2] = 0
    THEN Raise("IndexError")
    ELSE Ok([x EXCEPT !.shape = <<x.shape[1]>> \o SubSeq(x.shape, 3, Len(x.shape)),
                      !.sel = Append(x.sel, x.shape[2])])

\* x[:, 0, :] : the slice at the first position
SliceFirst(x) ==
    IF Len(x.shape) < 3 \/ x.shape[2] = 0
    THEN Raise("IndexError")
    ELSE Ok([x EXCEPT !.shape = <<x.shape[1]>> \o SubSeq(x.shape, 3, Len(x.shape)),
                      !.sel = Append(x.sel, 1)])

\* x[0] on a tuple
TupleFirst(x) == IF Len(x.elems) = 0 THEN Raise("IndexError") ELSE Ok(x.elems[1])

get_cls_first(x) ==
    IF x = PyNone THEN Ok(PyInt(0))
    ELSE IF x.kind = "tensor" THEN SliceFirst(x)
    ELSE IF x.kind = "tuple" THEN TupleFirst(x)
    ELSE Raise("ValueError")

get_cls_passthrough(x) ==
    IF x = PyNone THEN Ok(PyInt(0))
    ELSE IF x.kind = "tensor" THEN (IF Len(x.shape) = 3 THEN SliceLast(x) ELSE Ok(x))
    ELSE IF x.kind = "tuple" THEN TupleFirst(x)
    ELSE Ok(x)

get_cls(x) ==
    IF x = PyNone THEN Ok(PyInt(0))
    ELSE IF x.kind = "tensor" THEN SliceLast(x)
    ELSE IF x.kind = "tuple" THEN TupleFirst(x)
    ELSE Raise("ValueError")

(***************************************************************************)
(* Architecture presets, as functions of the configuration object.         *)
(***************************************************************************)
base_architecture_force(a) ==
    LET a1 == SetAttr(a, "gnn_number_layer", PyInt(BaseLayers))
    IN  SetAttr(a1, "gnn_embed_dim", GetAttr(a1, "gnn_embed_dim", PyInt(DefaultEmbedDim)))

base_architecture_fn(a) ==
    LET a1 == SetAttr(a, "gnn_number_layer", GetAttr(a, "gnn_number_layer", PyInt(BaseLayers)))
    IN  SetAttr(a1, "gnn_embed_dim", GetAttr(a1, "gnn_embed_dim", PyInt(DefaultEmbedDim)))

tiny_architecture_fn(a) ==
    LET a1 == SetAttr(a, "gnn_number_layer", GetAttr(a, "gnn_number_layer", PyInt(TinyLayers)))
        a2 == SetAttr(a1, "gnn_embed_dim", GetAttr(a1, "gnn_embed_dim", PyInt(DefaultEmbedDim)))
    IN  base_architecture_fn(a2)

large_architecture_fn(a) ==
    LET a1 == SetAttr(a, "gnn_number_layer", GetAttr(a, "gnn_number_layer", PyInt(LargeLayers)))
        a2 == SetAttr(a1, "gnn_embed_dim", GetAttr(a1, "gnn_embed_dim", PyInt(DefaultEmbedDim)))
    IN  base_architecture_fn(a2)

(***************************************************************************)
(* Classification heads (heads.py): a head is known by its class and the   *)
(* sizes of its layers.                                                    *)
(***************************************************************************)
BinaryClassMLPHead(input_dim, inner_dim, num_classes) ==
    [kind |-> "BinaryClassMLPHead", input_dim |-> input_dim,
     dense |-> [out_features |-> inner_dim],
     out_proj |-> [out_features |-> num_classes]]

BinaryClassFeatIntegrationHead(input_dim, inner_dim, num_classes) ==
    [kind |-> "BinaryClassFeatIntegrationHead", input_dim |-> input_dim,
     dense |-> [out_features |-> inner_dim],
     out_proj |-> [out_features |-> num_classes]]

\* a summary the head is built for: a (batch, input_dim) tensor
GoodSummary(head, s) ==
    /\ s.kind = "tensor"
    /\ Len(s.shape) = 2
    /\ s.shape[2] = head.input_dim.val

\* whether the head may reject the inputs: never when both summaries have the
\* width it was built for, otherwise it is up to the head
HeadAccepts(head, sa, sb) ==
    IF GoodSummary(head, sa) /\ GoodSummary(head, sb) THEN {TRUE} ELSE BOOLEAN

\* head(enc_a, enc_b, net_rel), head.forward_NoDelta(...), ...
HeadCall(head, variant, sa, sb, rel) ==
    [kind |-> "logits", head |-> head, variant |-> variant,
     a |-> sa, b |-> sb, rel |-> rel]

(***************************************************************************)
(* register_classification_head                                            *)
(***************************************************************************)
BCLSMLP == PyStr("bclsmlp")
BCLSFEATINT == PyStr("bclsFeatInt")

\* the warning condition of lines 150-153
ReRegisterWarns(heads, name, num_classes, inner_dim) ==
    /\ name \in DOMAIN heads
    /\ \/ num_classes # heads[name].out_proj.out_features
       \/ inner_dim # heads[name].dense.out_features

\* getattr(self.encoder, "output_features", self.args.gnn_embed_dim)
InputDim(a, enc) == GetAttr(enc.attrs, "output_features", a["gnn_embed_dim"])

\* registers under the name before looking at the kind
register_fn_store_first(heads, a, enc, name, num_classes, inner_dim) ==
    LET warned == ReRegisterWarns(heads, name, num_classes, inner_dim)
        inner == PyOr(inner_dim, a["gnn_embed_dim"])
        stored == SetAttr(heads, name, BinaryClassMLPHead(InputDim(a, enc), inner, num_classes))
    IN  IF name = BCLSMLP
        THEN [heads |-> stored, warned |-> warned, result |-> Ok(PyNone)]
        ELSE IF name = BCLSFEATINT
        THEN [heads |-> SetAttr(heads, name, BinaryClassFeatIntegrationHead(InputDim(a, enc), inner, num_classes)),
              warned |-> warned, result |-> Ok(PyNone)]
        ELSE [heads |-> stored, warned |-> warned, result |-> Raise("NotImplementedError")]

\* keeps the head already registered under the name
register_fn_keep_existing(heads, a, enc, name, num_classes, inner_dim) ==
    LET warned == ReRegisterWarns(heads, name, num_classes, inner_dim)
        inner == PyOr(inner_dim, a["gnn_embed_dim"])
    IN  IF name \in DOMAIN heads
        THEN [heads |-> heads, warned |-> warned, result |-> Ok(PyNone)]
        ELSE IF name = BCLSMLP
        THEN [heads |-> SetAttr(heads, name, BinaryClassMLPHead(InputDim(a, enc), inner, num_classes)),
              warned |-> warned, result |-> Ok(PyNone)]
        ELSE IF name = BCLSFEATINT
        THEN [heads |-> SetAttr(heads, name, BinaryClassFeatIntegrationHead(InputDim(a, enc), inner, num_classes)),
              warned |-> warned, result |-> Ok(PyNone)]
        ELSE [heads |-> heads, warned |-> warned, result |-> Raise("NotImplementedError")]

\* rebuilds the mapping with the new head alone
register_fn_reset_mapping(heads, a, enc, name, num_classes, inner_dim) ==
    LET warned == ReRegisterWarns(heads, name, num_classes, inner_dim)
        inner == PyOr(inner_dim, a["gnn_embed_dim"])
    IN  IF name = BCLSMLP
        THEN [heads |-> SetAttr(NoAttrs, name, BinaryClassMLPHead(InputDim(a, enc), inner, num_classes)),
              warned |-> warned, result |-> Ok(PyNone)]
        ELSE IF name = BCLSFEATINT
        THEN [heads |-> SetAttr(NoAttrs, name, BinaryClassFeatIntegrationHead(InputDim(a, enc), inner, num_classes)),
              warned |-> warned, result |-> Ok(PyNone)]
        ELSE [heads |-> heads, warned |-> warned, result |-> Raise("NotImplementedError")]

register_fn(heads, a, enc, name, num_classes, inner_dim) ==
    LET warned == ReRegisterWarns(heads, name, num_classes, inner_dim)
        inner == PyOr(inner_dim, a["gnn_embed_dim"])
    IN  IF name = BCLSMLP
        THEN [heads |-> SetAttr(heads, name, BinaryClassMLPHead(InputDim(a, enc), inner, num_classes)),
              warned |-> warned, result |-> Ok(PyNone)]
        ELSE IF name = BCLSFEATINT
        THEN [heads |-> SetAttr(heads, name, BinaryClassFeatIntegrationHead(InputDim(a, enc), inner, num_classes)),
              warned |-> warned, result |-> Ok(PyNone)]
        ELSE [heads |-> heads, warned |-> warned, result |-> Raise("NotImplementedError")]

(***************************************************************************)
(* The forward variants, as functions of the head mapping, the two encoder *)
(* outputs and the head's acceptance of the summaries.                     *)
(***************************************************************************)
\* looks the head up with a default instead of failing
forward_fn_default_head(heads, name, enc_a, enc_b, net_rel, acc) ==
    LET ca == get_cls(enc_a)
        cb == get_cls(enc_b)
    IN  IF ~ca.ok THEN Raise(ca.err)
        ELSE IF ~cb.ok THEN Raise(cb.err)
        ELSE IF name \notin DOMAIN heads THEN Ok(PyTuple(<<ca.val, cb.val>>))
        ELSE IF ~acc THEN Raise("RuntimeError")
        ELSE Ok(HeadCall(heads[name], "forward", ca.val, cb.val, net_rel))

\* passes the two summaries in the wrong order
forward_fn_swapped(heads, name, enc_a, enc_b, net_rel, acc) ==
    LET ca == get_cls(enc_a)
        cb == get_cls(enc_b)
    IN  IF ~ca.ok THEN Raise(ca.err)
        ELSE IF ~cb.ok THEN Raise(cb.err)
        ELSE IF name \notin DOMAIN heads THEN Raise("KeyError")
        ELSE IF ~acc THEN Raise("RuntimeError")
        ELSE Ok(HeadCall(heads[name], "forward", cb.val, ca.val, net_rel))

forward_fn(heads, name, enc_a, enc_b, net_rel, acc) ==
    LET ca == get_cls(enc_a)
        cb == get_cls(enc_b)
    IN  IF ~ca.ok THEN Raise(ca.err)
        ELSE IF ~cb.ok THEN Raise(cb.err)
        ELSE IF name \notin DOMAIN heads THEN Raise("KeyError")
        ELSE IF ~acc THEN Raise("RuntimeError")
        ELSE Ok(HeadCall(heads[name], "forward", ca.val, cb.val, net_rel))

\* returns the plain output in place of the no-delta one
forward_cons_neg_fn_no_ori(heads, name, enc_a, enc_b, net_rel, acc) ==
    LET ca == get_cls(enc_a)
        cb == get_cls(enc_b)
    IN  IF ~ca.ok THEN Raise(ca.err)
        ELSE IF ~cb.ok THEN Raise(cb.err)
        ELSE IF name \notin DOMAIN heads THEN Raise("KeyError")
        ELSE IF ~acc THEN Raise("RuntimeError")
        ELSE LET x == HeadCall(heads[name], "forward", ca.val, cb.val, net_rel)
                 x_deltaH == HeadCall(heads[name], "forward_deltaH", ca.val, cb.val, net_rel)
                 x_deltaT == HeadCall(heads[name], "forward_deltaT", ca.val, cb.val, net_rel)
             IN  Ok(PyTuple(<<x, x_deltaH, x_deltaT, x>>))

forward_cons_neg_fn(heads, name, enc_a, enc_b, net_rel, acc) ==
    LET ca == get_cls(enc_a)
        cb == get_cls(enc_b)
    IN  IF ~ca.ok THEN Raise(ca.err)
        ELSE IF ~cb.ok THEN Raise(cb.err)
        ELSE IF name \notin DOMAIN heads THEN Raise("KeyError")
        ELSE IF ~acc THEN Raise("RuntimeError")
        ELSE LET x == HeadCall(heads[name], "forward", ca.val, cb.val, net_rel)
                 x_ori == HeadCall(heads[name], "forward_NoDelta", ca.val, cb.val, net_rel)
                 x_deltaH == HeadCall(heads[name], "forward_deltaH", ca.val, cb.val, net_rel)
                 x_deltaT == HeadCall(heads[name], "forward_deltaT", ca.val, cb.val, net_rel)
             IN  Ok(PyTuple(<<x, x_deltaH, x_deltaT, x_ori>>))

forward_embed_fn(enc_a, enc_b) ==
    LET ca == get_cls(enc_a)
        cb == get_cls(enc_b)
    IN  IF ~ca.ok THEN Raise(ca.err)
        ELSE IF ~cb.ok THEN Raise(cb.err)
        ELSE Ok(PyTuple(<<ca.val, cb.val>>))

\* `if classification_head_name is not None: features_only = True`
FeaturesOnly(name, features_only) == IF name # PyNone THEN TRUE ELSE features_only

\* the two encoder invocations of a forward variant, in order
EncoderCalls(name, features_only, drug_a_graph, drug_b_graph) ==
    << [graph |-> drug_a_graph, features_only |-> FeaturesOnly(name, features_only)],
       [graph |-> drug_b_graph, features_only |-> FeaturesOnly(name, features_only)] >>

(***************************************************************************)
(* The environment: the encoder, the configurations a caller may pass, the *)
(* arguments of the calls.                                                 *)
(***************************************************************************)
\* a drug graph: which drug it is and how many nodes it has
Graphs(d) == {[name |-> d, nodes |-> n] : n \in 0..MaxLen}

\* DeeperGCN(args): an encoder returns one kind of value: nothing, a tensor
\* (per-node or pooled), a tuple (empty, or led by the per-node tensor), or a
\* value of another type; a per-node encoder may or may not declare its output
\* width, and its outputs have one of the widths
Encoders ==
    LET attrs == {NoAttrs} \cup {SetAttr(NoAttrs, "output_features", f) : f \in EncoderOutputFeatures}
    IN  {[attrs |-> NoAttrs, returns |-> r, width |-> DefaultEmbedDim] :
            r \in {"None", "list", "tuple0", "tensor2", "tuple"}}
        \cup
        {[attrs |-> at, returns |-> "tensor3", width |-> w] : at \in attrs, w \in TensorWidths}

NoEncoder == [attrs |-> NoAttrs, returns |-> "None", width |-> DefaultEmbedDim]

\* the first value self.encoder(**graph, features_only=...) returns
EncoderOutput(enc, graph) ==
    CASE enc.returns = "None" -> PyNone
      [] enc.returns = "list" -> PyList
      [] enc.returns = "tuple0" -> PyTuple(<<>>)
      [] enc.returns = "tuple" ->
            PyTuple(<<Tensor(<<1, graph.nodes, enc.width>>, graph.name), PyNone>>)
      [] enc.returns = "tensor3" -> Tensor(<<1, graph.nodes, enc.width>>, graph.name)
      [] enc.returns = "tensor2" -> Tensor(<<1, enc.width>>, graph.name)

\* configurations with max_positions set and the two preset fields set or not
ConfigsOver(layers, dims) ==
    {c \in UNION {[fs -> layers \cup dims \cup {PyInt(DefaultMaxPositions)}] :
                    fs \in {{"max_positions"} \cup s : s \in SUBSET {"gnn_number_layer", "gnn_embed_dim"}}} :
        /\ c["max_positions"] = PyInt(DefaultMaxPositions)
        /\ "gnn_number_layer" \in DOMAIN c => c["gnn_number_layer"] \in layers
        /\ "gnn_embed_dim" \in DOMAIN c => c["gnn_embed_dim"] \in dims}

PresetConfigs == ConfigsOver(CallerLayers, CallerEmbedDims)
CallerConfigs == ConfigsOver({}, CallerEmbedDims)

RegisterNames == {BCLSMLP, BCLSFEATINT, PyStr("unknown")}
ForwardNames == RegisterNames \cup {PyNone}
ClassCounts == {PyInt(2), PyInt(3)}
InnerDims == {PyNone, PyInt(0), PyInt(128)}
Relations == {PyInt(1)}
FeaturesOnlyArgs == {FALSE}

(***************************************************************************)
(* State.                                                                  *)
(***************************************************************************)
VARIABLES
    built,                  \* whether build_model has returned the model
    args,                   \* the configuration object
    encoder,                \* self.encoder
    classification_heads,   \* self.classification_heads
    last                    \* the last call: its arguments, effects and outcome

vars == <<built, args, encoder, classification_heads, last>>

Init ==
    /\ built = FALSE
    /\ args \in CallerConfigs
    /\ encoder = NoEncoder
    /\ classification_heads = NoAttrs
    /\ last = [op |-> "none"]

InitPresets ==
    /\ built = FALSE
    /\ args \in PresetConfigs
    /\ encoder = NoEncoder
    /\ classification_heads = NoAttrs
    /\ last = [op |-> "none"]

tiny_architecture ==
    /\ ~built
    /\ args' = tiny_architecture_fn(args)
    /\ last' = [op |-> "tiny_architecture", pre_args |-> args]
    /\ UNCHANGED <<built, encoder, classification_heads>>

base_architecture ==
    /\ ~built
    /\ args' = base_architecture_fn(args)
    /\ last' = [op |-> "base_architecture", pre_args |-> args]
    /\ UNCHANGED <<built, encoder, classification_heads>>

large_architecture ==
    /\ ~built
    /\ args' = large_architecture_fn(args)
    /\ last' = [op |-> "large_architecture", pre_args |-> args]
    /\ UNCHANGED <<built, encoder, classification_heads>>

\* build_model, and the __init__ it ends with
build_model ==
    /\ ~built
    /\ args' = base_architecture_fn(args)
    /\ encoder' \in Encoders
    /\ classification_heads' = NoAttrs
    /\ built' = TRUE
    /\ last' = [op |-> "build_model", pre_args |-> args]

register_classification_head ==
    /\ built
    /\ \E name \in RegisterNames, num_classes \in ClassCounts, inner_dim \in InnerDims :
          LET r == register_fn(classification_heads, args, encoder, name, num_classes, inner_dim)
          IN  /\ classification_heads' = r.heads
              /\ last' = [op |-> "register_classification_head", name |-> name,
                          num_classes |-> num_classes, inner_dim |-> inner_dim,
                          pre_heads |-> classification_heads,
                          warned |-> r.warned, result |-> r.result]
    /\ UNCHANGED <<built, args, encoder>>

\* the head's verdict on the summaries, where the call gets as far as the head
Acceptances(name, enc_a, enc_b) ==
    IF get_cls(enc_a).ok /\ get_cls(enc_b).ok /\ name \in DOMAIN classification_heads
    THEN HeadAccepts(classification_heads[name], get_cls(enc_a).val, get_cls(enc_b).val)
    ELSE {TRUE}

forward ==
    /\ built
    /\ \E name \in ForwardNames, features_only \in FeaturesOnlyArgs, net_rel \in Relations,
          drug_a_graph \in Graphs("drug_a"), drug_b_graph \in Graphs("drug_b") :
        LET enc_a == EncoderOutput(encoder, drug_a_graph)
            enc_b == EncoderOutput(encoder, drug_b_graph)
        IN  \E acc \in Acceptances(name, enc_a, enc_b) :
              last' = [op |-> "forward", name |-> name, net_rel |-> net_rel,
                       enc_calls |-> EncoderCalls(name, features_only, drug_a_graph, drug_b_graph),
                       enc_a |-> enc_a, enc_b |-> enc_b,
                       result |-> forward_fn(classification_heads, name, enc_a, enc_b, net_rel, acc)]
    /\ UNCHANGED <<built, args, encoder, classification_heads>>

forward_cons_neg ==
    /\ built
    /\ \E name \in ForwardNames, features_only \in FeaturesOnlyArgs, net_rel \in Relations,
          drug_a_graph \in Graphs("drug_a"), drug_b_graph \in Graphs("drug_b") :
        LET enc_a == EncoderOutput(encoder, drug_a_graph)
            enc_b == EncoderOutput(encoder, drug_b_graph)
        IN  \E acc \in Acceptances(name, enc_a, enc_b) :
              last' = [op |-> "forward_cons_neg", name |-> name, net_rel |-> net_rel,
                       enc_calls |-> EncoderCalls(name, features_only, drug_a_graph, drug_b_graph),
                       enc_a |-> enc_a, enc_b |-> enc_b,
                       result |-> forward_cons_neg_fn(classification_heads, name, enc_a, enc_b, net_rel, acc)]
    /\ UNCHANGED <<built, args, encoder, classification_heads>>

forward_embed ==
    /\ built
    /\ \E name \in {PyNone, BCLSMLP}, features_only \in FeaturesOnlyArgs, net_rel \in Relations,
          drug_a_graph \in Graphs("drug_a"), drug_b_graph \in Graphs("drug_b") :
        LET enc_a == EncoderOutput(encoder, drug_a_graph)
            enc_b == EncoderOutput(encoder, drug_b_graph)
        IN  last' = [op |-> "forward_embed", name |-> name, net_rel |-> net_rel,
                     enc_calls |-> EncoderCalls(name, features_only, drug_a_graph, drug_b_graph),
                     enc_a |-> enc_a, enc_b |-> enc_b,
                     result |-> forward_embed_fn(enc_a, enc_b)]
    /\ UNCHANGED <<built, args, encoder, classification_heads>>

max_positions ==
    /\ built
    /\ last' = [op |-> "max_positions", result |-> Ok(args["max_positions"])]
    /\ UNCHANGED <<built, args, encoder, classification_heads>>

Next ==
    \/ build_model
    \/ register_classification_head
    \/ forward
    \/ forward_cons_neg
    \/ forward_embed
    \/ max_positions

Spec == Init /\ [][Next]_vars

\* the presets applied to a configuration, then the build
NextPresets ==
    \/ tiny_architecture
    \/ base_architecture
    \/ large_architecture
    \/ build_model

SpecPresets == InitPresets /\ [][NextPresets]_vars

(***************************************************************************)
(* Vocabulary of the properties, written without the operators above.      *)
(***************************************************************************)
SupportedNames == {BCLSMLP, BCLSFEATINT}
PresetFields == {"gnn_number_layer", "gnn_embed_dim"}
ForwardOps == {"forward", "forward_cons_neg", "forward_embed"}

IsTensor(x) == x.kind = "tensor"
IsTuple(x) == x.kind = "tuple"
IsRank3(x) == IsTensor(x) /\ Len(x.shape) = 3

\* the slice at the last position of an encoder output of shape (batch, length, dim)
LastSliceOf(x) ==
    [kind |-> "tensor", shape |-> <<x.shape[1], x.shape[3]>>, src |-> x.src,
     sel |-> <<x.shape[2]>>]

\* encoder outputs a summary can be taken from
Extractable(x) ==
    \/ x = PyNone
    \/ IsRank3(x) /\ x.shape[2] >= 1
    \/ IsTuple(x) /\ Len(x.elems) >= 1

\* the summary of an extractable encoder output
SummaryOf(x) ==
    IF x = PyNone THEN PyInt(0)
    ELSE IF IsTuple(x) THEN x.elems[1]
    ELSE LastSliceOf(x)

\* a per-node encoder output the head under a name was built for
ExpectedTensor(x, head) ==
    /\ IsRank3(x)
    /\ x.shape[2] >= 1
    /\ x.shape[3] = head.input_dim.val

\* the inner dimension a registration asks for
RequestedInner(inner_dim) ==
    IF inner_dim = PyNone \/ inner_dim = PyInt(0) THEN args["gnn_embed_dim"] ELSE inner_dim

IsRegister == last.op = "register_classification_head"

(***************************************************************************)
(* C1: registering a name outside {bclsmlp, bclsFeatInt} fails with a      *)
(* not-implemented error and leaves the head mapping exactly as it was,    *)
(* whatever heads were registered before.                                  *)
(***************************************************************************)
C1_UnsupportedNameLeavesMapping ==
    (IsRegister /\ last.name \notin SupportedNames) =>
        /\ last.result = Raise("NotImplementedError")
        /\ classification_heads = last.pre_heads

C1_Witness ==
    /\ IsRegister
    /\ last.name = PyStr("unknown")
    /\ DOMAIN last.pre_heads = SupportedNames
    /\ ~last.result.ok

(***************************************************************************)
(* C2 as stated: forward with a head name that is not registered fails     *)
(* with a lookup error.                                                    *)
(***************************************************************************)
C2_UnregisteredIsLookupError ==
    (last.op = "forward" /\ last.name \notin DOMAIN classification_heads) =>
        last.result = Raise("KeyError")

(***************************************************************************)
(* C2 amended: forward with a head name that is not registered (no name    *)
(* and a name whose registration failed included) fails and returns no     *)
(* prediction; the error is a lookup error when a summary can be taken     *)
(* from both encoder outputs, and the error of summary extraction (domain  *)
(* or index error) otherwise, since extraction runs before the lookup.     *)
(***************************************************************************)
C2_UnregisteredFails ==
    (last.op = "forward" /\ last.name \notin DOMAIN classification_heads) =>
        /\ ~last.result.ok
        /\ (Extractable(last.enc_a) /\ Extractable(last.enc_b))
              => last.result.err = "KeyError"
        /\ ~(Extractable(last.enc_a) /\ Extractable(last.enc_b))
              => last.result.err \in {"ValueError", "IndexError"}

C2_Witness ==
    /\ last.op = "forward"
    /\ last.name = PyStr("unknown")
    /\ classification_heads # NoAttrs
    /\ last.result = Raise("KeyError")

(***************************************************************************)
(* C3 as stated: with bclsmlp registered, forward under that name does not *)
(* fail when the encoder returns tensors of the expected embedding width.  *)
(***************************************************************************)
C3_ExpectedWidthNeverFails ==
    ( /\ last.op = "forward"
      /\ last.name = BCLSMLP
      /\ BCLSMLP \in DOMAIN classification_heads
      /\ \A x \in {last.enc_a, last.enc_b} :
            /\ IsTensor(x)
            /\ x.shape[Len(x.shape)] = classification_heads[BCLSMLP].input_dim.val )
    => last.result.ok

(***************************************************************************)
(* C3 amended: a successful registration of bclsmlp with 2 classes leaves  *)
(* the name registered, the name stays registered, and every forward under *)
(* it in which the encoder returns rank-3 tensors (batch, length, dim)     *)
(* with length >= 1 and the width the head was built for does not fail: it *)
(* runs the encoder on drug A then on drug B and returns the registered    *)
(* head applied to (last slice of A, last slice of B, relation).           *)
(***************************************************************************)
C3_State ==
    /\ (IsRegister /\ last.name = BCLSMLP /\ last.num_classes = PyInt(2)) =>
          /\ last.result.ok
          /\ BCLSMLP \in DOMAIN classification_heads
    /\ ( /\ last.op = "forward"
         /\ last.name = BCLSMLP
         /\ BCLSMLP \in DOMAIN classification_heads
         /\ ExpectedTensor(last.enc_a, classification_heads[BCLSMLP])
         /\ ExpectedTensor(last.enc_b, classification_heads[BCLSMLP]) )
       => /\ last.result =
                Ok([kind |-> "logits", head |-> classification_heads[BCLSMLP],
                    variant |-> "forward", a |-> LastSliceOf(last.enc_a),
                    b |-> LastSliceOf(last.enc_b), rel |-> last.net_rel])
          /\ last.result.val.a.src = "drug_a"
          /\ last.result.val.b.src = "drug_b"
          /\ <<last.enc_calls[1].graph.name, last.enc_calls[2].graph.name>> = <<"drug_a", "drug_b">>

C3_Persist ==
    BCLSMLP \in DOMAIN classification_heads => BCLSMLP \in DOMAIN classification_heads'

C3_RegisteredForwardSucceeds == [](C3_State) /\ [][C3_Persist]_vars

C3_Witness ==
    /\ last.op = "forward"
    /\ last.name = BCLSMLP
    /\ BCLSMLP \in DOMAIN classification_heads
    /\ classification_heads[BCLSMLP].out_proj.out_features = PyInt(2)
    /\ ExpectedTensor(last.enc_a, classification_heads[BCLSMLP])
    /\ ExpectedTensor(last.enc_b, classification_heads[BCLSMLP])
    /\ last.enc_a.shape[2] = 2
    /\ last.enc_b.shape[2] = 1
    /\ last.result.ok

(***************************************************************************)
(* C4: registering a supported name that is already registered, with a     *)
(* class count or inner dimension different from the registered head's,    *)
(* warns, does not fail and replaces the head under that name by a new     *)
(* head of the requested sizing; heads under other names are unchanged.    *)
(***************************************************************************)
C4_ReRegisterReplaces ==
    ( /\ IsRegister
      /\ last.name \in SupportedNames
      /\ last.name \in DOMAIN last.pre_heads
      /\ \/ last.num_classes # last.pre_heads[last.name].out_proj.out_features
         \/ last.inner_dim # last.pre_heads[last.name].dense.out_features
         \/ RequestedInner(last.inner_dim) # last.pre_heads[last.name].dense.out_features )
    => /\ last.warned
       /\ last.result.ok
       /\ DOMAIN classification_heads = DOMAIN last.pre_heads
       /\ classification_heads[last.name].out_proj.out_features = last.num_classes
       /\ classification_heads[last.name].dense.out_features = RequestedInner(last.inner_dim)
       /\ classification_heads[last.name].input_dim =
             (IF "output_features" \in DOMAIN encoder.attrs
              THEN encoder.attrs["output_features"] ELSE args["gnn_embed_dim"])
       /\ classification_heads[last.name].kind =
             (IF last.name = BCLSMLP THEN "BinaryClassMLPHead"
              ELSE "BinaryClassFeatIntegrationHead")
       /\ \A n \in DOMAIN last.pre_heads \ {last.name} :
             classification_heads[n] = last.pre_heads[n]

C4_Witness ==
    /\ IsRegister
    /\ last.name = BCLSFEATINT
    /\ DOMAIN last.pre_heads = SupportedNames
    /\ last.num_classes # last.pre_heads[BCLSFEATINT].out_proj.out_features
    /\ RequestedInner(last.inner_dim) # last.pre_heads[BCLSFEATINT].dense.out_features
    /\ last.warned
    /\ classification_heads[BCLSFEATINT] # last.pre_heads[BCLSFEATINT]

(***************************************************************************)
(* C5: on a configuration with neither gnn_number_layer nor gnn_embed_dim  *)
(* set, base yields 6 layers, tiny 2 and large 12, each with embedding     *)
(* dimension 384; and every preset (build_model's use of base included)    *)
(* leaves a value the caller set beforehand unchanged.                     *)
(***************************************************************************)
C5_PresetDefaults ==
    (last.op \in {"tiny_architecture", "base_architecture", "large_architecture", "build_model"}) =>
        /\ \A f \in PresetFields \cap DOMAIN last.pre_args : args[f] = last.pre_args[f]
        /\ PresetFields \subseteq DOMAIN args
        /\ (PresetFields \cap DOMAIN last.pre_args = {}) =>
              /\ args["gnn_embed_dim"] = PyInt(384)
              /\ args["gnn_number_layer"] =
                    PyInt(CASE last.op = "tiny_architecture" -> 2
                            [] last.op = "large_architecture" -> 12
                            [] OTHER -> 6)

C5_Witness ==
    /\ last.op = "tiny_architecture"
    /\ PresetFields \cap DOMAIN last.pre_args = {}
    /\ args["gnn_number_layer"] = PyInt(2)
    /\ args["gnn_embed_dim"] = PyInt(384)

(***************************************************************************)
(* C6 as stated: get_cls maps a rank-3 tensor (batch, length, dim) to its  *)
(* slice at the last position, of shape (batch, dim); a tuple to its first *)
(* element; None to the scalar 0; any other value to a domain error.       *)
(***************************************************************************)
C6_FourCases ==
    (last.op \in ForwardOps) =>
        \A x \in {last.enc_a, last.enc_b} :
            IF x = PyNone THEN get_cls(x) = Ok(PyInt(0))
            ELSE IF IsRank3(x) THEN get_cls(x) = Ok(LastSliceOf(x))
            ELSE IF IsTuple(x) THEN
                /\ get_cls(x).ok
                /\ Len(x.elems) >= 1
                /\ get_cls(x).val = x.elems[1]
            ELSE get_cls(x) = Raise("ValueError")

(***************************************************************************)
(* C6 amended: get_cls maps a rank-3 tensor (batch, length, dim) with      *)
(* length >= 1 to its slice at the last position, of shape (batch, dim); a *)
(* non-empty tuple to its first element unchanged; None to the scalar 0; a *)
(* value that is neither None, a tensor nor a tuple to a domain error; and *)
(* a rank-3 tensor of length 0, a tensor of rank below 3 and an empty      *)
(* tuple to an index error, with no summary returned.                      *)
(***************************************************************************)
C6_Cases ==
    (last.op \in ForwardOps) =>
        \A x \in {last.enc_a, last.enc_b} :
            IF x = PyNone THEN get_cls(x) = Ok(PyInt(0))
            ELSE IF IsRank3(x) /\ x.shape[2] >= 1 THEN
                /\ get_cls(x) = Ok(LastSliceOf(x))
                /\ get_cls(x).val.shape = <<x.shape[1], x.shape[3]>>
                /\ get_cls(x).val.sel = <<x.shape[2]>>
            ELSE IF IsTensor(x) /\ Len(x.shape) <= 3 THEN get_cls(x) = Raise("IndexError")
            ELSE IF IsTuple(x) /\ Len(x.elems) >= 1 THEN get_cls(x) = Ok(x.elems[1])
            ELSE IF IsTuple(x) THEN get_cls(x) = Raise("IndexError")
            ELSE get_cls(x) = Raise("ValueError")

\* forward_embed returns exactly the two summaries get_cls extracted
C6_Witness ==
    /\ last.op = "forward_embed"
    /\ IsRank3(last.enc_a)
    /\ last.enc_a.shape[2] = 2
    /\ IsRank3(last.enc_b)
    /\ last.enc_b.shape[2] = 1
    /\ last.result = Ok(PyTuple(<<LastSliceOf(last.enc_a), LastSliceOf(last.enc_b)>>))

(***************************************************************************)
(* C7 as stated: get_cls is idempotent: where get_cls(x) succeeds,         *)
(* get_cls(get_cls(x)) succeeds and returns the same value.                *)
(***************************************************************************)
C7_Idempotent ==
    (last.op \in ForwardOps) =>
        \A x \in {last.enc_a, last.enc_b} :
            get_cls(x).ok =>
                /\ get_cls(get_cls(x).val).ok
                /\ get_cls(get_cls(x).val).val = get_cls(x).val

(***************************************************************************)
(* C7 amended: get_cls is shape-reducing and not idempotent: where         *)
(* get_cls(x) succeeds, a second application never returns get_cls(x)      *)
(* again.  It fails with a domain error after None (the summary 0 is not   *)
(* an encoder output), fails with an index error after a rank-3 tensor     *)
(* (the summary has rank 2), and after a tuple led by a rank-3 tensor of   *)
(* length >= 1 it returns the last slice of that tensor, which differs     *)
(* from the tensor.                                                        *)
(***************************************************************************)
C7_NotIdempotent ==
    (last.op \in ForwardOps) =>
        \A x \in {last.enc_a, last.enc_b} :
            Extractable(x) =>
                LET y == SummaryOf(x)
                IN  /\ get_cls(x) = Ok(y)
                    /\ ~(get_cls(y).ok /\ get_cls(y).val = y)
                    /\ x = PyNone => get_cls(y) = Raise("ValueError")
                    /\ IsRank3(x) => get_cls(y) = Raise("IndexError")
                    /\ (IsTuple(x) /\ IsRank3(y) /\ y.shape[2] >= 1) =>
                          /\ get_cls(y) = Ok(LastSliceOf(y))
                          /\ LastSliceOf(y) # y

C7_Witness ==
    /\ last.op = "forward_embed"
    /\ IsRank3(last.enc_a)
    /\ last.enc_a.shape[2] = 2
    /\ last.result.ok
    /\ last.result.val.elems[1] = LastSliceOf(last.enc_a)
    /\ get_cls(last.result.val.elems[1]) = Raise("IndexError")

(***************************************************************************)
(* C8: forward_cons_neg under a registered head name invokes the encoder   *)
(* exactly twice (drug A, then drug B) and, when it returns, returns       *)
(* exactly four outputs: the plain output and the delta-on-head,           *)
(* delta-on-tail and no-delta variants of the registered head, all four    *)
(* applied to the same (summaryA, summaryB, relation); it returns whenever *)
(* both summaries are of the kind the head was built for.                  *)
(***************************************************************************)
C8_FourOutputs ==
    (last.op = "forward_cons_neg" /\ last.name \in DOMAIN classification_heads) =>
        /\ Len(last.enc_calls) = 2
        /\ <<last.enc_calls[1].graph.name, last.enc_calls[2].graph.name>> = <<"drug_a", "drug_b">>
        /\ last.result.ok =>
              /\ Extractable(last.enc_a) /\ Extractable(last.enc_b)
              /\ last.result.val.kind = "tuple"
              /\ Len(last.result.val.elems) = 4
              /\ last.result.val.elems[1].variant = "forward"
              /\ {last.result.val.elems[i].variant : i \in 1..4} =
                    {"forward", "forward_NoDelta", "forward_deltaH", "forward_deltaT"}
              /\ \A i \in 1..4 :
                    /\ last.result.val.elems[i].head = classification_heads[last.name]
                    /\ last.result.val.elems[i].a = SummaryOf(last.enc_a)
                    /\ last.result.val.elems[i].b = SummaryOf(last.enc_b)
                    /\ last.result.val.elems[i].rel = last.net_rel
        /\ ( /\ ExpectedTensor(last.enc_a, classification_heads[last.name])
             /\ ExpectedTensor(last.enc_b, classification_heads[last.name]) )
           => last.result.ok

C8_Witness ==
    /\ last.op = "forward_cons_neg"
    /\ last.name = BCLSFEATINT
    /\ BCLSFEATINT \in DOMAIN classification_heads
    /\ IsRank3(last.enc_a)
    /\ last.enc_a.shape[2] = 2
    /\ last.result.ok
    /\ Len(last.result.val.elems) = 4

(***************************************************************************)
(* C9: register_classification_head warns only when the name is already    *)
(* registered and the head it is about to construct has a different class  *)
(* count or inner dimension from the head registered under the name; a     *)
(* registration repeated with the same arguments (inner_dim unspecified    *)
(* both times included) does not warn.                                     *)
(***************************************************************************)
C9_WarnsOnlyOnDifferentSizing ==
    (IsRegister /\ last.warned) =>
        /\ last.name \in DOMAIN last.pre_heads
        /\ \/ last.num_classes # last.pre_heads[last.name].out_proj.out_features
           \/ RequestedInner(last.inner_dim) # last.pre_heads[last.name].dense.out_features

(***************************************************************************)
(* C10: the head mapping is empty right after build; its keys are always   *)
(* among {bclsmlp, bclsFeatInt}; only a successful registration changes    *)
(* the mapping, and it changes only the entry of the name it was given.    *)
(***************************************************************************)
C10_State ==
    /\ last.op = "build_model" => classification_heads = NoAttrs
    /\ DOMAIN classification_heads \subseteq SupportedNames
    /\ (IsRegister /\ ~last.result.ok) => classification_heads = last.pre_heads

C10_Step ==
    classification_heads' # classification_heads =>
        /\ last'.op = "register_classification_head"
        /\ last'.result.ok
        /\ last'.pre_heads = classification_heads
        /\ DOMAIN classification_heads' = DOMAIN classification_heads \cup {last'.name}
        /\ \A n \in DOMAIN classification_heads \ {last'.name} :
              classification_heads'[n] = classification_heads[n]

C10_MappingDiscipline == [](C10_State) /\ [][C10_Step]_vars

C10_Witness ==
    /\ IsRegister
    /\ last.result.ok
    /\ last.name = BCLSMLP
    /\ DOMAIN last.pre_heads = {BCLSFEATINT}
    /\ DOMAIN classification_heads = SupportedNames
    /\ classification_heads[BCLSFEATINT] = last.pre_heads[BCLSFEATINT]

====
